---- MODULE Spec2Model ----
(***************************************************************************)
(* gournal: a Context-aware logging facade.  The model covers the dispatch *)
(* engine (sendToAppender), the context accessors, the field resolver      *)
(* (swapFields), the message formatter, the Entry builder and the          *)
(* io.Writer appender.                                                     *)
(*                                                                         *)
(* A Go map is a reference: the model keeps the maps the program holds on  *)
(* a heap (heap[ref]) and passes references, so that a write through one   *)
(* reference is seen through every other one.                              *)
(***************************************************************************)
EXTENDS Integers, Sequences, FiniteSets, TLC

VARIABLES
    DefaultLevel,     \* var DefaultLevel
    DefaultAppender,  \* var DefaultAppender
    ctx,              \* the context the program derived: what ctx.Value yields per key
    heap,             \* the maps the program holds: the Entry's and the context's
    entry,            \* TRUE when the program holds an Entry (its map is heap.entry)
    built,            \* the fields accumulated on the Entry by the With* calls
    pc,               \* "idle", "called" (a log call just ended) or "exited"
    last,             \* what the last log call was given and what it did
    threads,          \* the goroutines that log through the one Entry, each at its step
    DefaultContext,   \* var DefaultContext: what DefaultContext.Value yields per key
    derived,          \* the contexts made by context.WithValue and kept, each with its parent
    logger,           \* <<>>, or the context the Logger made by New holds
    prev,             \* what the log call before the last one was given and what it did
    buffer,           \* the lines in the bytes.Buffer the io.Writer appender writes to
    counter           \* the variable a counting field function increments when invoked

vars == <<DefaultLevel, DefaultAppender, ctx, heap, entry, built, pc, last, threads,
          DefaultContext, derived, logger, prev, buffer, counter>>

----------------------------------------------------------------------------
(* Levels *)

PanicLevel == 0
FatalLevel == 1
ErrorLevel == 2
WarnLevel == 3
InfoLevel == 4
DebugLevel == 5

Levels == {PanicLevel, FatalLevel, ErrorLevel, WarnLevel, InfoLevel, DebugLevel}

\* Level.String
LevelString(level) ==
    CASE level = DebugLevel -> "DEBUG"
      [] level = InfoLevel -> "INFO"
      [] level = WarnLevel -> "WARN"
      [] level = ErrorLevel -> "ERROR"
      [] level = FatalLevel -> "FATAL"
      [] level = PanicLevel -> "PANIC"
      [] OTHER -> "UNKNOWN"

----------------------------------------------------------------------------
(* Maps and the values the model draws its inputs from *)

None == "none"
Nil == "nil"

Keys == {"size", "point"}
Vals == {1, 2}

EmptyMap == [k \in {} |-> 0]

MapLen(m) == Cardinality(DOMAIN m)

\* for k, v := range src { dst[k] = v }
MapPutAll(dst, src) ==
    [k \in DOMAIN dst \cup DOMAIN src |-> IF k \in DOMAIN src THEN src[k] ELSE dst[k]]

\* delete(m, key)
MapDelete(m, key) == [k \in DOMAIN m \ {key} |-> m[k]]

\* m[key] = value
MapPut(m, key, value) == MapPutAll(m, [k \in {key} |-> value])

\* A map value as a Go variable holds it: a reference.  "nil" is the nil map,
\* "entry" and "ctxmap" are maps on the heap, "fresh" is a map a field
\* function has just made (its content travels with the reference).
Refs == {"entry", "ctxmap"}
NilMap == [ref |-> Nil, m |-> EmptyMap]
HeapMap(ref) == [ref |-> ref, m |-> EmptyMap]
FreshMap(m) == [ref |-> "fresh", m |-> m]

Content(h, mv) == IF mv.ref \in Refs THEN h[mv.ref] ELSE mv.m

\* the static map a program attaches under FieldsKey: empty, or one that
\* shares a key with the Entry's fields and adds another
StaticMaps == {EmptyMap, [k \in Keys |-> 3]}


\* func() map[string]interface{}: makes a new map on every invocation
LazyFields == FreshMap([k \in {"point"} |-> 3])

\* func(ctx, lvl, fields, args...) map[string]interface{}: pops "size" from
\* the fields it is given and derives "point" from it
ContextualDeletes(fields) == IF "size" \in DOMAIN fields THEN MapDelete(fields, "size") ELSE fields
ContextualFields(fields) ==
    IF "size" \in DOMAIN fields
    THEN FreshMap([k \in {"point"} |-> fields["size"]])
    ELSE FreshMap([k \in {"point"} |-> 3])

\* func(ctx, lvl, fields, args...) map[string]interface{}: one that reports
\* what it was called with
EchoFields(c, lvl, fields, args) ==
    FreshMap([k \in {"ctx", "lvl", "given", "args"} |->
                 CASE k = "ctx" -> c
                   [] k = "lvl" -> lvl
                   [] k = "given" -> MapLen(fields)
                   [] OTHER -> Len(args)])

\* func() map[string]interface{} { counter++; return {"counter": counter} }
\* invoked with the counter at n
CounterFields(n) == FreshMap([k \in {"counter"} |-> n + 1])

FieldSources == {"static", "lazy", "contextual"}

\* the Appender implementations plugged in: "iow" is the io.Writer appender,
\* "rec" an Appender that records the entry and returns
Appenders == {"iow", "rec"}

\* the io.Writer appenders: "iow" is iowriter.New(), which writes to
\* os.Stdout, "buf" is iowriter.NewWithOptions(w) with w the program's
\* bytes.Buffer
IOWriters == {"iow", "buf"}

----------------------------------------------------------------------------
(* Arguments of a log call and the fmt functions the formatter calls *)

StringArg(toks) == [t |-> "string", toks |-> toks, err |-> "", n |-> 0]
ErrorArg(text) == [t |-> "error", toks |-> <<>>, err |-> text, n |-> 0]
StringerArg(text) == [t |-> "stringer", toks |-> <<text>>, err |-> "", n |-> 0]
IntArg(n) == [t |-> "int", toks |-> <<>>, err |-> "", n |-> n]
\* a value of a type with both an Error() and a String() method
FaultArg(error, text) == [t |-> "fault", toks |-> <<text>>, err |-> error, n |-> 0]

IsError(x) == x.t \in {"error", "fault"}
IsStringer(x) == x.t \in {"stringer", "fault"}

\* a Go string is kept as its pieces, so that the verbs of a template can be
\* found; Text is the string itself
Verbs == {"%s", "%d", "%v"}

RECURSIVE Text(_)
Text(toks) == IF toks = <<>> THEN "" ELSE Head(toks) \o Text(Tail(toks))

\* the %v form of an operand
DefaultString(x) ==
    IF x.t = "string" THEN Text(x.toks)
    ELSE IF IsError(x) THEN x.err
    ELSE IF IsStringer(x) THEN Text(x.toks)
    ELSE ToString(x.n)

\* the %T form: errors are made by errors.New, a Stringer is a struct of the program
GoType(x) ==
    CASE x.t = "string" -> "string"
      [] x.t = "int" -> "int"
      [] x.t = "error" -> "*errors.errorString"
      [] x.t = "fault" -> "main.fault"
      [] OTHER -> "main.planet"

BadVerb(verb, x) == "%!" \o (IF verb = "%s" THEN "s" ELSE "d") \o "(" \o GoType(x) \o "=" \o DefaultString(x) \o ")"

\* one verb applied to one operand (operands after the first are strings and ints)
FormatVerb(verb, x) ==
    CASE verb = "%v" -> DefaultString(x)
      [] verb = "%s" -> IF x.t = "int" THEN BadVerb(verb, x) ELSE DefaultString(x)
      [] OTHER -> IF x.t = "int" THEN ToString(x.n) ELSE BadVerb(verb, x)

MissingVerb(verb) == "%!" \o (CASE verb = "%s" -> "s" [] verb = "%d" -> "d" [] OTHER -> "v") \o "(MISSING)"

RECURSIVE ExtraList(_)
ExtraList(a) ==
    IF a = <<>> THEN ""
    ELSE GoType(Head(a)) \o "=" \o DefaultString(Head(a))
         \o (IF Len(a) > 1 THEN ", " ELSE "") \o ExtraList(Tail(a))

\* fmt.Sprintf(format, a...)
RECURSIVE Sprintf(_, _)
Sprintf(format, a) ==
    IF format = <<>>
    THEN IF a = <<>> THEN "" ELSE "%!(EXTRA " \o ExtraList(a) \o ")"
    ELSE IF Head(format) \in Verbs
         THEN IF a = <<>>
              THEN MissingVerb(Head(format)) \o Sprintf(Tail(format), a)
              ELSE FormatVerb(Head(format), Head(a)) \o Sprintf(Tail(format), Tail(a))
         ELSE Head(format) \o Sprintf(Tail(format), a)

\* fmt.Fprint(w, a...): a space between two operands when neither is a string
RECURSIVE Fprint(_)
Fprint(a) ==
    IF a = <<>> THEN ""
    ELSE DefaultString(Head(a))
         \o (IF Len(a) > 1 /\ Head(a).t # "string" /\ a[2].t # "string" THEN " " ELSE "")
         \o Fprint(Tail(a))

----------------------------------------------------------------------------
(* Context accessors *)

\* var defaultCtx = context.Background()
defaultCtx == "bg"

\* the contexts a log call is given: nil, context.Background(), or the
\* context the program derived with context.WithValue
CtxArgs == {Nil, "bg", "ctx"}

LevelKey == "level"
AppenderKey == "appender"
FieldsKey == "fields"

\* the name of the i-th context made by context.WithValue and kept
CtxName(i) == "c" \o ToString(i)
DerivedNames == {CtxName(i) : i \in DOMAIN derived}
Derived(c) == derived[CHOOSE i \in DOMAIN derived : CtxName(i) = c]

\* (*valueCtx).Value: the value of the nearest context on the way to the
\* background context that was made with this key
RECURSIVE ChainValue(_, _)
ChainValue(c, key) ==
    IF c \notin DerivedNames THEN <<>>
    ELSE IF Derived(c).key = key THEN <<Derived(c).val>>
    ELSE ChainValue(Derived(c).parent, key)

\* c.Value(key): <<v>> when the context carries v under key, <<>> when it
\* carries nothing (the background context never does).  "ctx" is the
\* program's variable ctx, "DefaultContext" the package's variable, "l.ctx"
\* the Logger's field, and the others are the contexts kept in derived.
Value(c, key) ==
    CASE c = "ctx" -> ctx[key]
      [] c = "DefaultContext" -> DefaultContext[key]
      [] c = "l.ctx" -> logger[1][key]
      [] c \in DerivedNames -> ChainValue(c, key)
      [] OTHER -> <<>>

\* a slip: the level is looked up on defaultCtx instead of ctx
getLevelOfDefaultCtx(c) ==
    IF Value(defaultCtx, LevelKey) # <<>> THEN Value(defaultCtx, LevelKey)[1] ELSE DefaultLevel

\* a slip: the default read at the dispatch before is kept
getLevelCached(c) ==
    IF Value(c, LevelKey) # <<>> THEN Value(c, LevelKey)[1]
    ELSE IF prev.api # None THEN prev.DefaultLevel
    ELSE DefaultLevel

getLevel(c) ==
    IF Value(c, LevelKey) # <<>> THEN Value(c, LevelKey)[1] ELSE DefaultLevel

\* a slip: an assigned DefaultAppender is preferred to the context's own
getAppenderDefaultFirst(c) ==
    IF c = defaultCtx \/ DefaultAppender # Nil THEN DefaultAppender
    ELSE IF Value(c, AppenderKey) # <<>> THEN Value(c, AppenderKey)[1]
    ELSE DefaultAppender

getAppender(c) ==
    IF c = defaultCtx THEN DefaultAppender
    ELSE IF Value(c, AppenderKey) # <<>> THEN Value(c, AppenderKey)[1]
    ELSE DefaultAppender

----------------------------------------------------------------------------
(* Field resolver *)

\* a slip: a key the explicit fields already hold is not overwritten
swapFieldsExplicitWins(appendFields, ctxFields, h) ==
    IF MapLen(Content(h, ctxFields)) = 0
    THEN [fields |-> appendFields, heap |-> h]
    ELSE IF MapLen(Content(h, appendFields)) = 0
    THEN [fields |-> ctxFields, heap |-> h]
    ELSE [fields |-> appendFields,
          heap |-> [h EXCEPT ![appendFields.ref] =
                        MapPutAll(Content(h, ctxFields), h[appendFields.ref])]]

\* a slip: the explicit fields are copied into the context's map
swapFieldsIntoContext(appendFields, ctxFields, h) ==
    IF MapLen(Content(h, ctxFields)) = 0
    THEN [fields |-> appendFields, heap |-> h]
    ELSE IF MapLen(Content(h, appendFields)) = 0
    THEN [fields |-> ctxFields, heap |-> h]
    ELSE IF ctxFields.ref \in Refs
    THEN [fields |-> ctxFields,
          heap |-> [h EXCEPT ![ctxFields.ref] =
                        MapPutAll(Content(h, appendFields), h[ctxFields.ref])]]
    ELSE [fields |-> appendFields,
          heap |-> [h EXCEPT ![appendFields.ref] =
                        MapPutAll(h[appendFields.ref], Content(h, ctxFields))]]

\* swapFields(&fields, &ctxFields) on heap h: the caller's fields variable
\* afterwards, and the heap afterwards
swapFields(appendFields, ctxFields, h) ==
    IF MapLen(Content(h, ctxFields)) = 0
    THEN [fields |-> appendFields, heap |-> h]
    ELSE IF MapLen(Content(h, appendFields)) = 0
    THEN [fields |-> ctxFields, heap |-> h]
    ELSE [fields |-> appendFields,
          heap |-> [h EXCEPT ![appendFields.ref] =
                        MapPutAll(h[appendFields.ref], Content(h, ctxFields))]]

----------------------------------------------------------------------------
(* Appenders *)

KeyOrder == <<"point", "size">>

\* the %v form of a map[string]interface{}: map[k:v k:v], keys sorted
RECURSIVE MapItems(_, _)
MapItems(m, ks) ==
    IF ks = <<>> THEN ""
    ELSE LET rest == MapItems(m, Tail(ks))
         IN IF Head(ks) \in DOMAIN m
            THEN Head(ks) \o ":" \o ToString(m[Head(ks)])
                 \o (IF rest = "" THEN "" ELSE " " \o rest)
            ELSE rest
MapString(m) == "map[" \o MapItems(m, KeyOrder) \o "]"

\* what one Append invocation was handed
Appended(a, c, lvl, fields, h, msg) ==
    [a |-> a, ctx |-> c, lvl |-> lvl, fields |-> Content(h, fields),
     ref |-> fields.ref, msg |-> msg]

\* the outcome of a call: the heap it leaves, the steps it took in order, the
\* Append invocations, the lines written, and how it ended
Outcome(h, events, appends, written, how, payload) ==
    [heap |-> h, events |-> events, appends |-> appends, written |-> written,
     how |-> how, payload |-> payload]

\* a slip: the line with fields has lost its newline
IOWriterLineUnterminated(lvl, fields, msg) ==
    IF MapLen(fields) = 0
    THEN "[" \o LevelString(lvl) \o "] " \o msg \o "\n"
    ELSE "[" \o LevelString(lvl) \o "] " \o msg \o " " \o MapString(fields)

\* iowriter: (*appender).Append
IOWriterLine(lvl, fields, msg) ==
    IF MapLen(fields) = 0
    THEN "[" \o LevelString(lvl) \o "] " \o msg \o "\n"
    ELSE "[" \o LevelString(lvl) \o "] " \o msg \o " " \o MapString(fields) \o "\n"

\* a slip: at PanicLevel the panic comes before the line is written
IOWriterAppendPanicsFirst(a, c, lvl, fields, msg, h, events) ==
    LET line == IOWriterLine(lvl, Content(h, fields), msg)
        rec == <<Appended(a, c, lvl, fields, h, msg)>>
    IN IF lvl = FatalLevel
       THEN Outcome(h, events \o <<"append", "write", "exit">>, rec, <<line>>, "exit", "1")
       ELSE IF lvl = PanicLevel
       THEN Outcome(h, events \o <<"append", "panic">>, rec, <<>>, "panic", line)
       ELSE Outcome(h, events \o <<"append", "write">>, rec, <<line>>, "return", "")

IOWriterAppend(a, c, lvl, fields, msg, h, events) ==
    LET line == IOWriterLine(lvl, Content(h, fields), msg)
        rec == <<Appended(a, c, lvl, fields, h, msg)>>
    IN IF lvl = FatalLevel
       THEN Outcome(h, events \o <<"append", "write", "exit">>, rec, <<line>>, "exit", "1")
       ELSE IF lvl = PanicLevel
       THEN Outcome(h, events \o <<"append", "write", "panic">>, rec, <<line>>, "panic", line)
       ELSE Outcome(h, events \o <<"append", "write">>, rec, <<line>>, "return", "")

\* an Appender that records the entry and returns
RecordAppend(c, lvl, fields, msg, h, events) ==
    Outcome(h, events \o <<"append">>, <<Appended("rec", c, lvl, fields, h, msg)>>,
            <<>>, "return", "")

----------------------------------------------------------------------------
(* Dispatch engine *)

NilDereference == "runtime error: invalid memory address or nil pointer dereference"

\* a slip: an entry with an empty message is not appended
traceAppendSkipsEmpty(a, c, lvl, fields, msg, h, events) ==
    CASE msg = "" -> Outcome(h, events, <<>>, <<>>, "return", "")
      [] a \in IOWriters -> IOWriterAppend(a, c, lvl, fields, msg, h, events)
      [] a = "rec" -> RecordAppend(c, lvl, fields, msg, h, events)
      [] OTHER -> Outcome(h, events \o <<"panic">>, <<>>, <<>>, "panic", NilDereference)

\* a slip: a nil appender is skipped instead of called
traceAppendNilGuard(a, c, lvl, fields, msg, h, events) ==
    CASE a \in IOWriters -> IOWriterAppend(a, c, lvl, fields, msg, h, events)
      [] a = "rec" -> RecordAppend(c, lvl, fields, msg, h, events)
      [] OTHER -> Outcome(h, events, <<>>, <<>>, "return", "")

\* traceAppend: a.Append(ctx, lvl, fields, msg); a method call on a nil
\* interface value panics.  The GOURNAL_DEBUG line goes to stderr only and is
\* left out.
traceAppend(a, c, lvl, fields, msg, h, events) ==
    CASE a \in IOWriters -> IOWriterAppend(a, c, lvl, fields, msg, h, events)
      [] a = "rec" -> RecordAppend(c, lvl, fields, msg, h, events)
      [] OTHER -> Outcome(h, events \o <<"panic">>, <<>>, <<>>, "panic", NilDereference)

\* a slip: a full-signature function is handed a copy of the fields, so that
\* what it deletes stays in the fields the Appender is handed
ResolveFieldsHandsCopy(c, lvl, fields, args, h) ==
    LET tv == Value(c, FieldsKey)
    IN CASE tv = <<"static">> -> swapFields(fields, HeapMap("ctxmap"), h)
         [] tv = <<"lazy">> -> swapFields(fields, LazyFields, h)
         [] tv = <<"counter">> -> swapFields(fields, CounterFields(counter), h)
         [] tv = <<"echo">> ->
              swapFields(fields, EchoFields(c, lvl, Content(h, fields), args), h)
         [] tv = <<"contextual">> ->
              swapFields(fields, ContextualFields(Content(h, fields)), h)
         [] OTHER -> [fields |-> fields, heap |-> h]

\* the switch on ctx.Value(FieldsKey): the fields variable and the heap afterwards
ResolveFields(c, lvl, fields, args, h) ==
    LET tv == Value(c, FieldsKey)
    IN CASE tv = <<"static">> -> swapFields(fields, HeapMap("ctxmap"), h)
         [] tv = <<"lazy">> -> swapFields(fields, LazyFields, h)
         [] tv = <<"counter">> -> swapFields(fields, CounterFields(counter), h)
         [] tv = <<"echo">> ->
              swapFields(fields, EchoFields(c, lvl, Content(h, fields), args), h)
         [] tv = <<"contextual">> ->
              LET given == Content(h, fields)
                  h1 == IF fields.ref \in Refs
                        THEN [h EXCEPT ![fields.ref] = ContextualDeletes(given)]
                        ELSE h
              IN swapFields(fields, ContextualFields(given), h1)
         [] OTHER -> [fields |-> fields, heap |-> h]

\* a slip: the Stringer case stands before the error case
Arg0MessageStringerFirst(x) ==
    IF x.t = "string" THEN Text(x.toks)
    ELSE IF IsStringer(x) THEN Text(x.toks)
    ELSE IF IsError(x) THEN x.err
    ELSE DefaultString(x)

\* the first argument's own message: the type switch on args[0]
Arg0Message(x) ==
    IF x.t = "string" THEN Text(x.toks)
    ELSE IF IsError(x) THEN x.err
    ELSE IF IsStringer(x) THEN Text(x.toks)
    ELSE DefaultString(x)

\* a slip: a lone string is put through Sprintf as well
formatAndAppendAlwaysSprintf(a, c, lvl, fields, args, h, events) ==
    IF Len(args) = 0
    THEN traceAppend(a, c, lvl, fields, "", h, events)
    ELSE traceAppend(a, c, lvl, fields,
                     IF args[1].t = "string"
                     THEN Sprintf(args[1].toks, Tail(args))
                     ELSE IF Len(args) < 2 THEN Arg0Message(args[1]) ELSE Fprint(Tail(args)),
                     h, events \o <<"format">>)

\* the tail of sendToAppender: the message is formatted from args and the
\* entry is handed to the appender
formatAndAppend(a, c, lvl, fields, args, h, events) ==
    IF Len(args) = 0
    THEN traceAppend(a, c, lvl, fields, "", h, events)
    ELSE
    LET arg0IsString == args[1].t = "string"
        msg == Arg0Message(args[1])
    IN IF Len(args) < 2
       THEN traceAppend(a, c, lvl, fields, msg, h, events \o <<"format">>)
       ELSE traceAppend(a, c, lvl, fields,
                        IF arg0IsString
                        THEN Sprintf(args[1].toks, Tail(args))
                        ELSE Fprint(Tail(args)),
                        h, events \o <<"format">>)

\* a slip: the function is invoked once to see whether it yields anything
\* and once more for the fields
SourceEventsTwice(c) ==
    IF Value(c, FieldsKey) \in {<<"lazy">>, <<"contextual">>, <<"echo">>, <<"counter">>}
    THEN <<"source", "source">> ELSE <<>>

SourceEvents(c) ==
    IF Value(c, FieldsKey) \in {<<"lazy">>, <<"contextual">>, <<"echo">>, <<"counter">>}
    THEN <<"source">> ELSE <<>>

\* a slip: the context's fields are resolved before the level is checked
sendToAppenderResolvesFirst(c0, lvl, fields, args) ==
    LET c == IF c0 = Nil THEN defaultCtx ELSE c0
        r == ResolveFields(c, lvl, fields, args, heap)
    IN IF getLevel(c) < lvl
       THEN Outcome(r.heap, SourceEvents(c) \o <<"level">>, <<>>, <<>>, "return", "")
       ELSE formatAndAppend(getAppender(c), c, lvl, r.fields, args, r.heap,
                            SourceEvents(c) \o <<"level", "appender">>)

\* a slip: the message is formatted before the context's fields are resolved
sendToAppenderFormatsFirst(c0, lvl, fields, args) ==
    LET c == IF c0 = Nil THEN defaultCtx ELSE c0
    IN IF getLevel(c) < lvl
       THEN Outcome(heap, <<"level">>, <<>>, <<>>, "return", "")
       ELSE
       LET a == getAppender(c)
           r == ResolveFields(c, lvl, fields, args, heap)
           out == formatAndAppend(a, c, lvl, r.fields, args, r.heap, <<"level", "appender">>)
       IN IF Len(args) = 0
          THEN [out EXCEPT !.events = <<"level", "appender">> \o SourceEvents(c)
                                        \o SubSeq(out.events, 3, Len(out.events))]
          ELSE [out EXCEPT !.events = <<"level", "appender", "format">> \o SourceEvents(c)
                                        \o SubSeq(out.events, 4, Len(out.events))]

\* a slip: a call at the threshold itself is dropped
sendToAppenderDropsAtThreshold(c0, lvl, fields, args) ==
    LET c == IF c0 = Nil THEN defaultCtx ELSE c0
    IN IF getLevel(c) <= lvl
       THEN Outcome(heap, <<"level">>, <<>>, <<>>, "return", "")
       ELSE
       LET a == getAppender(c)
           r == ResolveFields(c, lvl, fields, args, heap)
       IN formatAndAppend(a, c, lvl, r.fields, args, r.heap,
                          <<"level", "appender">> \o SourceEvents(c))

\* a slip: the appender is resolved, and missed, before the level is checked
sendToAppenderAppenderFirst(c0, lvl, fields, args) ==
    LET c == IF c0 = Nil THEN defaultCtx ELSE c0
        a == getAppender(c)
    IN IF a = Nil
       THEN Outcome(heap, <<"appender", "panic">>, <<>>, <<>>, "panic", NilDereference)
       ELSE IF getLevel(c) < lvl
       THEN Outcome(heap, <<"appender", "level">>, <<>>, <<>>, "return", "")
       ELSE
       LET r == ResolveFields(c, lvl, fields, args, heap)
       IN formatAndAppend(a, c, lvl, r.fields, args, r.heap,
                          <<"appender", "level">> \o SourceEvents(c))

sendToAppender(c0, lvl, fields, args) ==
    LET c == IF c0 = Nil THEN defaultCtx ELSE c0
    IN IF getLevel(c) < lvl
       THEN Outcome(heap, <<"level">>, <<>>, <<>>, "return", "")
       ELSE
       LET a == getAppender(c)
           r == ResolveFields(c, lvl, fields, args, heap)
       IN formatAndAppend(a, c, lvl, r.fields, args, r.heap,
                          <<"level", "appender">> \o SourceEvents(c))

----------------------------------------------------------------------------
(* The program: configuration, the Entry builder and the log calls *)

\* the level functions of the package and of an Entry
LogFunctions == {"Debug", "Info", "Print", "Warn", "Error", "Fatal", "Panic"}

FunctionLevel(fn) ==
    CASE fn = "Debug" -> DebugLevel
      [] fn = "Info" -> InfoLevel
      [] fn = "Print" -> InfoLevel
      [] fn = "Warn" -> WarnLevel
      [] fn = "Error" -> ErrorLevel
      [] fn = "Fatal" -> FatalLevel
      [] OTHER -> PanicLevel

\* the argument lists the calls are made with: none, one, a template with an
\* operand, a non-string first argument with more operands
ArgLists ==
    { <<>>,
      <<StringArg(<<"Hello ", "%s">>)>>,
      <<StringArg(<<"Hello ", "%s">>), StringArg(<<"Bob">>)>>,
      <<ErrorArg("boom"), IntArg(3), IntArg(4)>> }

NoCall == [api |-> None]

\* the lines the program lets its bytes.Buffer take
MaxLines == 3

\* a context that carries nothing: context.Background()
NoAttachments == [level |-> <<>>, appender |-> <<>>, fields |-> <<>>]

MaxThreads == 2
Threads == 1..MaxThreads

\* a goroutine: where it stands in its terminal call, the call's function and
\* context, sendToAppender's fields variable, swapFields' ctxFields, the keys
\* the range loop has still to copy, and how the call ended
IdleThread ==
    [pc |-> "idle", fn |-> None, c |-> None, fields |-> NilMap, ctxFields |-> NilMap,
     todo |-> {}, how |-> None]

Init ==
    /\ DefaultLevel = ErrorLevel
    /\ DefaultAppender = Nil
    /\ ctx = NoAttachments
    /\ heap = [ref \in Refs |-> EmptyMap]
    /\ entry = FALSE
    /\ built = EmptyMap
    /\ pc = "idle"
    /\ last = NoCall
    /\ threads = [t \in Threads |-> IdleThread]
    /\ DefaultContext = NoAttachments
    /\ derived = <<>>
    /\ logger = <<>>
    /\ prev = NoCall
    /\ buffer = <<>>
    /\ counter = 0

\* DefaultLevel = l
SetDefaultLevel(l) ==
    /\ pc = "idle"
    /\ DefaultLevel' = l
    /\ UNCHANGED <<DefaultAppender, ctx, heap, entry, built, pc, last, threads,
                 DefaultContext, derived, logger, prev, buffer, counter>>

\* DefaultAppender = a
SetDefaultAppender(a) ==
    /\ pc = "idle"
    /\ DefaultAppender' = a
    /\ UNCHANGED <<DefaultLevel, ctx, heap, entry, built, pc, last, threads,
                 DefaultContext, derived, logger, prev, buffer, counter>>

\* ctx = context.WithValue(ctx, LevelKey, l)
WithLevel(l) ==
    /\ pc = "idle"
    /\ ctx' = [ctx EXCEPT !.level = <<l>>]
    /\ UNCHANGED <<DefaultLevel, DefaultAppender, heap, entry, built, pc, last, threads,
                 DefaultContext, derived, logger, prev, buffer, counter>>

\* ctx = context.WithValue(ctx, AppenderKey, a)
WithAppender(a) ==
    /\ pc = "idle"
    /\ ctx' = [ctx EXCEPT !.appender = <<a>>]
    /\ UNCHANGED <<DefaultLevel, DefaultAppender, heap, entry, built, pc, last, threads,
                 DefaultContext, derived, logger, prev, buffer, counter>>

\* ctx = context.WithValue(ctx, FieldsKey, m) with a map m
WithStaticFields(m) ==
    /\ pc = "idle"
    /\ ctx' = [ctx EXCEPT !.fields = <<"static">>]
    /\ heap' = [heap EXCEPT !.ctxmap = m]
    /\ UNCHANGED <<DefaultLevel, DefaultAppender, entry, built, pc, last, threads,
                 DefaultContext, derived, logger, prev, buffer, counter>>

\* ctx = context.WithValue(ctx, FieldsKey, f) with a function f
WithFieldsFunc(f) ==
    /\ pc = "idle"
    /\ ctx' = [ctx EXCEPT !.fields = <<f>>]
    /\ heap' = [heap EXCEPT !.ctxmap = EmptyMap]
    /\ UNCHANGED <<DefaultLevel, DefaultAppender, entry, built, pc, last, threads,
                 DefaultContext, derived, logger, prev, buffer, counter>>

\* e = WithField(key, value)
WithField(key, value) ==
    /\ pc = "idle"
    /\ entry' = TRUE
    /\ heap' = [heap EXCEPT !.entry = [k \in {key} |-> value]]
    /\ built' = [k \in {key} |-> value]
    /\ UNCHANGED <<DefaultLevel, DefaultAppender, ctx, pc, last, threads,
                 DefaultContext, derived, logger, prev, buffer, counter>>

\* e.WithField(key, value)
EntryWithField(key, value) ==
    /\ pc = "idle"
    /\ entry
    /\ heap' = [heap EXCEPT !.entry = MapPut(heap.entry, key, value)]
    /\ built' = MapPut(built, key, value)
    /\ UNCHANGED <<DefaultLevel, DefaultAppender, ctx, entry, pc, last, threads,
                 DefaultContext, derived, logger, prev, buffer, counter>>

\* the invocations of the counting function among the steps of a call
Invocations(c, events) ==
    IF Value(c, FieldsKey) = <<"counter">>
    THEN Cardinality({i \in DOMAIN events : events[i] = "source"})
    ELSE 0

\* the invocations of the counting function the program lets happen
MaxCount == 3

\* the call has ended: by a return, by a panic the caller recovers, or by
\* the process exiting
Ended(api, fn, c, lvl, args, out) ==
    /\ heap' = out.heap
    /\ counter' = counter + Invocations(c, out.events)
    /\ buffer' = buffer \o (IF out.appends # <<>> /\ out.appends[1].a = "buf"
                            THEN out.written ELSE <<>>)
    /\ last' = [api |-> api, fn |-> fn, ctx |-> c, lvl |-> lvl, args |-> args,
                explicit |-> IF api = "entry" THEN heap.entry ELSE EmptyMap,
                before |-> heap, out |-> out]
    /\ pc' = IF out.how = "exit" THEN "exited" ELSE "called"
    /\ UNCHANGED <<DefaultLevel, DefaultAppender, ctx, entry, built, threads,
                 DefaultContext, derived, logger, prev>>

\* Debug(ctx, args...), Info(ctx, args...), ...
Log(fn, c, args) ==
    /\ pc = "idle"
    /\ Len(buffer) < MaxLines
    /\ counter < MaxCount
    /\ Ended("package", fn, c, FunctionLevel(fn), args,
             sendToAppender(c, FunctionLevel(fn), NilMap, args))

\* e.Debug(ctx, args...), e.Info(ctx, args...), ...
EntryLog(fn, c, args) ==
    /\ pc = "idle"
    /\ Len(buffer) < MaxLines
    /\ counter < MaxCount
    /\ entry
    /\ Ended("entry", fn, c, FunctionLevel(fn), args,
             sendToAppender(c, FunctionLevel(fn), HeapMap("entry"), args))

\* the program goes on after the call
Return ==
    /\ pc = "called"
    /\ pc' = "idle"
    /\ last' = NoCall
    /\ UNCHANGED <<DefaultLevel, DefaultAppender, ctx, heap, entry, built, threads,
                 DefaultContext, derived, logger, prev, buffer, counter>>

\* The dispatch of the package's level functions: every default, every
\* attachment of the context, every argument shape.
Next ==
    \/ \E l \in Levels : SetDefaultLevel(l)
    \/ \E a \in Appenders \cup {Nil} : SetDefaultAppender(a)
    \/ \E l \in Levels : WithLevel(l)
    \/ \E a \in Appenders : WithAppender(a)
    \/ \E m \in StaticMaps : WithStaticFields(m)
    \/ \E f \in {"lazy", "contextual"} : WithFieldsFunc(f)
    \/ \E fn \in LogFunctions, c \in CtxArgs, args \in ArgLists : Log(fn, c, args)
    \/ Return

Spec == Init /\ [][Next]_vars

\* Entries and their fields: an Entry is built, and log calls are made
\* through it and through the package, under every context level, appender
\* attachment and field source; DefaultLevel and DefaultAppender keep their
\* initial values (ErrorLevel, nil).
FieldArgLists == { <<>>, <<StringArg(<<"Discovered planet">>)>> }

NextFields ==
    \/ \E l \in Levels : WithLevel(l)
    \/ \E a \in Appenders : WithAppender(a)
    \/ \E m \in StaticMaps : WithStaticFields(m)
    \/ \E f \in {"lazy", "contextual"} : WithFieldsFunc(f)
    \/ \E k \in Keys, v \in Vals : WithField(k, v)
    \/ \E k \in Keys, v \in Vals : EntryWithField(k, v)
    \/ \E fn \in LogFunctions, c \in CtxArgs, args \in FieldArgLists : Log(fn, c, args)
    \/ \E fn \in LogFunctions, c \in CtxArgs, args \in FieldArgLists : EntryLog(fn, c, args)
    \/ Return

SpecFields == Init /\ [][NextFields]_vars

----------------------------------------------------------------------------
(* Goroutines that make terminal calls on one Entry.  sendToAppender is taken *)
(* step by step: one step per read or write of a map.                       *)

\* the functions the goroutines call
ConcFunctions == {"Debug", "Info", "Error"}

\* the fields the shared Entry has accumulated
ConcEntryFields == {EmptyMap, [k \in {"size"} |-> 1], [k \in Keys |-> 2]}

InitConc ==
    /\ DefaultLevel = ErrorLevel
    /\ DefaultAppender = Nil
    /\ ctx \in [level : {<<>>, <<InfoLevel>>},
                appender : {<<"rec">>, <<"iow">>},
                fields : {<<>>} \cup {<<f>> : f \in FieldSources}]
    /\ entry = TRUE
    /\ built \in ConcEntryFields
    /\ \E m \in StaticMaps :
          heap = [entry |-> built, ctxmap |-> IF ctx.fields = <<"static">> THEN m ELSE EmptyMap]
    /\ pc = "idle"
    /\ last = NoCall
    /\ threads = [t \in Threads |-> IdleThread]
    /\ DefaultContext = NoAttachments
    /\ derived = <<>>
    /\ logger = <<>>
    /\ prev = NoCall
    /\ buffer = <<>>
    /\ counter = 0

Step(t, next) ==
    /\ threads' = [threads EXCEPT ![t] = next]
    /\ UNCHANGED <<DefaultLevel, DefaultAppender, ctx, entry, built, pc, last,
                 DefaultContext, derived, logger, prev, buffer, counter>>

\* go e.Fn(c): sendToAppender(c, lvl, e.fields), the nil-context check
Begin(t, fn, c) ==
    /\ threads[t].pc = "idle"
    /\ Step(t, [IdleThread EXCEPT !.pc = "level", !.fn = fn,
                                  !.c = IF c = Nil THEN defaultCtx ELSE c,
                                  !.fields = HeapMap("entry")])
    /\ UNCHANGED heap

\* if getLevel(ctx) < lvl { return }; a := getAppender(ctx)
CheckLevel(t) ==
    /\ threads[t].pc = "level"
    /\ IF getLevel(threads[t].c) < FunctionLevel(threads[t].fn)
       THEN Step(t, [threads[t] EXCEPT !.pc = "done", !.how = "return"])
       ELSE Step(t, [threads[t] EXCEPT !.pc = "source"])
    /\ UNCHANGED heap

\* switch tv := ctx.Value(FieldsKey).(type)
SelectSource(t) ==
    /\ threads[t].pc = "source"
    /\ LET tv == Value(threads[t].c, FieldsKey)
       IN CASE tv = <<"static">> ->
                 Step(t, [threads[t] EXCEPT !.pc = "lenCtx", !.ctxFields = HeapMap("ctxmap")])
            [] tv = <<"lazy">> ->
                 Step(t, [threads[t] EXCEPT !.pc = "lenCtx", !.ctxFields = LazyFields])
            [] tv = <<"contextual">> ->
                 Step(t, [threads[t] EXCEPT !.pc = "fnRead"])
            [] OTHER -> Step(t, [threads[t] EXCEPT !.pc = "format"])
    /\ UNCHANGED heap

\* the contextual function reads fields["size"]
FuncRead(t) ==
    /\ threads[t].pc = "fnRead"
    /\ LET given == Content(heap, threads[t].fields)
       IN IF "size" \in DOMAIN given
          THEN Step(t, [threads[t] EXCEPT !.pc = "fnDelete",
                                          !.ctxFields = ContextualFields(given)])
          ELSE Step(t, [threads[t] EXCEPT !.pc = "lenCtx",
                                          !.ctxFields = ContextualFields(given)])
    /\ UNCHANGED heap

\* the contextual function deletes "size" from the fields and returns
FuncDelete(t) ==
    /\ threads[t].pc = "fnDelete"
    /\ heap' = [heap EXCEPT ![threads[t].fields.ref] = MapDelete(@, "size")]
    /\ Step(t, [threads[t] EXCEPT !.pc = "lenCtx"])

\* swapFields: if len(*ctxFields) == 0 { return }
SwapLenCtx(t) ==
    /\ threads[t].pc = "lenCtx"
    /\ IF MapLen(Content(heap, threads[t].ctxFields)) = 0
       THEN Step(t, [threads[t] EXCEPT !.pc = "format"])
       ELSE Step(t, [threads[t] EXCEPT !.pc = "lenAppend"])
    /\ UNCHANGED heap

\* swapFields: if len(*appendFields) == 0 { *appendFields = *ctxFields; return }
SwapLenAppend(t) ==
    /\ threads[t].pc = "lenAppend"
    /\ IF MapLen(Content(heap, threads[t].fields)) = 0
       THEN Step(t, [threads[t] EXCEPT !.pc = "format", !.fields = threads[t].ctxFields])
       ELSE Step(t, [threads[t] EXCEPT !.pc = "range",
                                       !.todo = DOMAIN Content(heap, threads[t].ctxFields)])
    /\ UNCHANGED heap

\* swapFields: for k, v := range *ctxFields { (*appendFields)[k] = v }, one key
SwapWrite(t, k) ==
    /\ threads[t].pc = "range"
    /\ k \in threads[t].todo
    /\ heap' = [heap EXCEPT ![threads[t].fields.ref] =
                    MapPut(@, k, Content(heap, threads[t].ctxFields)[k])]
    /\ Step(t, [threads[t] EXCEPT !.todo = @ \ {k},
                                  !.pc = IF threads[t].todo = {k} THEN "format" ELSE "range"])

\* the message is formatted from args
Format(t) ==
    /\ threads[t].pc = "format"
    /\ Step(t, [threads[t] EXCEPT !.pc = "append"])
    /\ UNCHANGED heap

\* traceAppend: a.Append(ctx, lvl, fields, msg); the appender reads the fields
CallAppend(t) ==
    /\ threads[t].pc = "append"
    /\ IF getAppender(threads[t].c) = Nil
       THEN Step(t, [threads[t] EXCEPT !.pc = "done", !.how = "panic"])
       ELSE Step(t, [threads[t] EXCEPT !.pc = "done", !.how = "return"])
    /\ UNCHANGED heap

\* the call has ended; the goroutine may make another
Finish(t) ==
    /\ threads[t].pc = "done"
    /\ Step(t, IdleThread)
    /\ UNCHANGED heap

NextConc ==
    \/ \E t \in Threads, fn \in ConcFunctions, c \in CtxArgs : Begin(t, fn, c)
    \/ \E t \in Threads : CheckLevel(t)
    \/ \E t \in Threads : SelectSource(t)
    \/ \E t \in Threads : FuncRead(t)
    \/ \E t \in Threads : FuncDelete(t)
    \/ \E t \in Threads : SwapLenCtx(t)
    \/ \E t \in Threads : SwapLenAppend(t)
    \/ \E t \in Threads, k \in Keys : SwapWrite(t, k)
    \/ \E t \in Threads : Format(t)
    \/ \E t \in Threads : CallAppend(t)
    \/ \E t \in Threads : Finish(t)

SpecConc == InitConc /\ [][NextConc]_vars

\* the maps goroutine t reads and the maps it writes in its next step
Reads(t) ==
    CASE threads[t].pc \in {"fnRead", "lenAppend", "append"} -> {threads[t].fields.ref}
      [] threads[t].pc \in {"lenCtx", "range"} -> {threads[t].ctxFields.ref}
      [] OTHER -> {}

Writes(t) ==
    CASE threads[t].pc \in {"fnDelete", "range"} -> {threads[t].fields.ref}
      [] OTHER -> {}

\* the maps swapFields itself writes in goroutine t's next step
SwapWrites(t) == IF threads[t].pc = "range" THEN {threads[t].fields.ref} ELSE {}

----------------------------------------------------------------------------
(* The public DefaultContext variable *)

\* DefaultContext = ctx
SetDefaultContext ==
    /\ pc = "idle"
    /\ DefaultContext' = ctx
    /\ UNCHANGED <<DefaultLevel, DefaultAppender, ctx, heap, entry, built, pc, last, threads,
                 derived, logger, prev, buffer, counter>>

\* The program derives a context, assigns it to DefaultContext and logs with
\* a nil context, with the background context and with its own context.
NextDefaultContext ==
    \/ \E l \in Levels : WithLevel(l)
    \/ \E a \in Appenders : WithAppender(a)
    \/ \E f \in {"lazy"} : WithFieldsFunc(f)
    \/ \E a \in Appenders : SetDefaultAppender(a)
    \/ SetDefaultContext
    \/ \E fn \in LogFunctions, c \in CtxArgs, args \in FieldArgLists : Log(fn, c, args)
    \/ Return

SpecDefaultContext == Init /\ [][NextDefaultContext]_vars

----------------------------------------------------------------------------
(* Changing the defaults between two log calls *)

\* the program goes on after the call and keeps, for the next call to be
\* compared with, what this one was given, the defaults and the context's
\* attachments it was made under, and what it did
Remember ==
    /\ pc = "called"
    /\ pc' = "idle"
    /\ prev' = [api |-> last.api, fn |-> last.fn, ctx |-> last.ctx, args |-> last.args,
                DefaultLevel |-> DefaultLevel, DefaultAppender |-> DefaultAppender,
                attached |-> ctx,
                events |-> last.out.events, appends |-> last.out.appends,
                written |-> last.out.written]
    /\ last' = NoCall
    /\ UNCHANGED <<DefaultLevel, DefaultAppender, ctx, heap, entry, built, threads,
                 DefaultContext, derived, logger, buffer, counter>>

\* the calls the program repeats after changing a default
RepeatedFunctions == {"Info", "Error"}
RepeatedArgLists == { <<StringArg(<<"Hello ", "%s">>), StringArg(<<"Bob">>)>> }

\* The program logs, assigns DefaultLevel or DefaultAppender and logs again,
\* with contexts that carry a level, an Appender, both or neither.
NextDefaults ==
    \/ \E l \in Levels : SetDefaultLevel(l)
    \/ \E a \in Appenders \cup {Nil} : SetDefaultAppender(a)
    \/ \E l \in {DebugLevel} : WithLevel(l)
    \/ \E a \in {"rec"} : WithAppender(a)
    \/ \E fn \in RepeatedFunctions, c \in CtxArgs, args \in RepeatedArgLists : Log(fn, c, args)
    \/ Remember

SpecDefaults == Init /\ [][NextDefaults]_vars

----------------------------------------------------------------------------
(* Parent and child contexts *)

MaxContexts == 3

\* the levels the derived contexts are given
DerivedLevels == {ErrorLevel, InfoLevel, DebugLevel}

\* the functions called through them
DerivedFunctions == {"Debug", "Info", "Error"}

\* c := context.WithValue(p, key, val), with p the background context or a
\* context derived before; the program keeps c and p
WithValue(p, key, val) ==
    /\ pc = "idle"
    /\ Len(derived) < MaxContexts
    /\ p \in {"bg"} \cup DerivedNames
    /\ derived' = Append(derived, [parent |-> p, key |-> key, val |-> val])
    /\ UNCHANGED <<DefaultLevel, DefaultAppender, ctx, heap, entry, built, pc, last, threads,
                 DefaultContext, logger, prev, buffer, counter>>

\* The program derives contexts with a level from the background context and
\* from one another, keeps them all, and logs through any of them.
NextDerived ==
    \/ \E l \in Levels : SetDefaultLevel(l)
    \/ \E a \in {"rec"} : SetDefaultAppender(a)
    \/ \E p \in {"bg"} \cup DerivedNames, l \in DerivedLevels : WithValue(p, LevelKey, l)
    \/ \E fn \in DerivedFunctions, c \in {"bg"} \cup DerivedNames, args \in RepeatedArgLists :
          Log(fn, c, args)
    \/ Return

SpecDerived == Init /\ [][NextDerived]_vars

----------------------------------------------------------------------------
(* The io.Writer appender on a bytes.Buffer *)

WriterFunctions == {"Info", "Error", "Fatal", "Panic"}

WriterArgLists ==
    { <<StringArg(<<"Hello ", "%s">>), StringArg(<<"Bob">>)>>,
      <<StringArg(<<"Hello ", "%s", " ", "%s">>), StringArg(<<"Mary">>), StringArg(<<"Kay">>)>> }

\* The program plugs an io.Writer appender on its buffer into the context or
\* into DefaultAppender, gives the context a level and static fields, and logs.
NextWriter ==
    \/ \E a \in {"buf"} : SetDefaultAppender(a)
    \/ \E a \in {"buf"} : WithAppender(a)
    \/ \E l \in {ErrorLevel, InfoLevel} : WithLevel(l)
    \/ \E m \in StaticMaps : WithStaticFields(m)
    \/ \E fn \in WriterFunctions, c \in CtxArgs, args \in WriterArgLists : Log(fn, c, args)
    \/ Return

SpecWriter == Init /\ [][NextWriter]_vars

----------------------------------------------------------------------------
(* The Logger made by New, and the formatter on every shape of arguments *)

\* the three methods of a level: X, Xf and Xln
Styles == {"", "f", "ln"}

\* the strings all arguments joined by spaces would make
RECURSIVE SpaceJoin(_)
SpaceJoin(a) ==
    IF a = <<>> THEN ""
    ELSE DefaultString(Head(a)) \o (IF Len(a) > 1 THEN " " ELSE "") \o SpaceJoin(Tail(a))

\* a slip: Xln joins its arguments itself and hands X the one string
LoggerForwardSprintln(fn, style, args) ==
    CASE style = "f" -> [fn |-> IF fn = "Fatal" THEN "Error" ELSE fn, args |-> args]
      [] style = "ln" /\ args # <<>> -> [fn |-> fn, args |-> <<StringArg(<<SpaceJoin(args)>>)>>]
      [] OTHER -> [fn |-> fn, args |-> args]

\* a slip: Xf hands X the format alone
LoggerForwardFormatOnly(fn, style, args) ==
    CASE style = "f" -> [fn |-> IF fn = "Fatal" THEN "Error" ELSE fn, args |-> <<args[1]>>]
      [] OTHER -> [fn |-> fn, args |-> args]

\* the logger methods: the package function a method ends in and the
\* arguments it hands it.  X calls the package's X; Xf calls l.X with the
\* format put before the arguments, but Fatalf calls l.Error; Xln calls l.X
\* with the arguments as they are.
LoggerForward(fn, style, args) ==
    CASE style = "f" -> [fn |-> IF fn = "Fatal" THEN "Error" ELSE fn, args |-> args]
      [] OTHER -> [fn |-> fn, args |-> args]

\* l := New(c): the Logger holds the context it is given, nil included
New(c) ==
    /\ pc = "idle"
    /\ logger' = <<[c |-> c, level |-> Value(c, LevelKey),
                    appender |-> Value(c, AppenderKey), fields |-> Value(c, FieldsKey)]>>
    /\ UNCHANGED <<DefaultLevel, DefaultAppender, ctx, heap, entry, built, pc, last, threads,
                 DefaultContext, derived, prev, buffer, counter>>

\* l.ctx as the package functions are given it
LoggerCtx == IF logger[1].c = "ctx" THEN "l.ctx" ELSE logger[1].c

\* l.X(args...), l.Xf(format, args...), l.Xln(args...); args holds the format first
LoggerLog(fn, style, args) ==
    /\ pc = "idle"
    /\ Len(buffer) < MaxLines
    /\ counter < MaxCount
    /\ logger # <<>>
    /\ style = "f" => (args # <<>> /\ args[1].t = "string")
    /\ LET to == LoggerForward(fn, style, args)
       IN Ended("logger", fn \o style, LoggerCtx, FunctionLevel(to.fn), args,
                sendToAppender(LoggerCtx, FunctionLevel(to.fn), NilMap, to.args))

MaxArgs == 2

\* what a log call is given as an argument: a template, two plain strings,
\* an error, a fmt.Stringer and an int
Operands ==
    { StringArg(<<"Hello ", "%s">>), StringArg(<<"Hello">>), StringArg(<<"Bob">>),
      ErrorArg("boom"), StringerArg("Kepler"), IntArg(3) }

FormatArgLists == UNION { [1..n -> Operands] : n \in 0..MaxArgs }

\* The program assigns the defaults, makes a Logger and logs through the
\* package functions and the Logger's methods with every list of arguments.
NextFormat ==
    \/ \E l \in {DebugLevel} : SetDefaultLevel(l)
    \/ \E a \in {"rec"} : SetDefaultAppender(a)
    \/ \E c \in {Nil, "bg"} : New(c)
    \/ \E fn \in LogFunctions, c \in {"bg"}, args \in FormatArgLists : Log(fn, c, args)
    \/ \E fn \in LogFunctions, style \in Styles, args \in FormatArgLists :
          LoggerLog(fn, style, args)
    \/ Return

SpecFormat == Init /\ [][NextFormat]_vars

----------------------------------------------------------------------------
(* Full-signature field functions *)

\* A context whose field source is a func(ctx, lvl, fields, args...): the one
\* that pops "size" and derives "point", and one that reports what it was
\* called with; log calls through the package and through an Entry, with
\* none, one and two arguments, at a level the default threshold lets pass
\* and one it filters.  The Appender attached is the recording one.
ContextualArgLists ==
    { <<>>,
      <<StringArg(<<"Discovered planet">>)>>,
      <<StringArg(<<"Hello ", "%s">>), StringArg(<<"Bob">>)>> }

ContextualFunctions == {"Info", "Error"}

NextContextual ==
    \/ \E l \in {ErrorLevel, DebugLevel} : WithLevel(l)
    \/ WithAppender("rec")
    \/ \E f \in {"contextual", "echo"} : WithFieldsFunc(f)
    \/ \E k \in Keys, v \in Vals : WithField(k, v)
    \/ \E k \in Keys, v \in Vals : EntryWithField(k, v)
    \/ \E fn \in ContextualFunctions, c \in CtxArgs, args \in ContextualArgLists :
           Log(fn, c, args)
    \/ \E fn \in ContextualFunctions, c \in CtxArgs, args \in ContextualArgLists :
           EntryLog(fn, c, args)
    \/ Return

SpecContextual == Init /\ [][NextContextual]_vars

----------------------------------------------------------------------------
(* A counting field function *)

\* The context carries a field function that counts its invocations and
\* yields the count; the context's level and DefaultLevel move, and log calls
\* are made through the package and through an Entry.
CounterFunctions == {"Info", "Error"}
CounterLevels == {ErrorLevel, InfoLevel}
CounterArgLists == { <<>>, <<StringArg(<<"Hello ", "%s">>), StringArg(<<"Mary">>)>> }

NextCounter ==
    \/ \E l \in CounterLevels : SetDefaultLevel(l)
    \/ \E l \in CounterLevels : WithLevel(l)
    \/ WithAppender("rec")
    \/ WithFieldsFunc("counter")
    \/ \E k \in Keys, v \in Vals : WithField(k, v)
    \/ \E fn \in CounterFunctions, c \in CtxArgs, args \in CounterArgLists : Log(fn, c, args)
    \/ \E fn \in CounterFunctions, c \in CtxArgs, args \in CounterArgLists :
           EntryLog(fn, c, args)
    \/ Return

SpecCounter == Init /\ [][NextCounter]_vars

----------------------------------------------------------------------------
(* Level names *)

\* a string as ParseLevel sees it: its characters in order
Chars(str) ==
    CASE str = "DEBUG" -> <<"D", "E", "B", "U", "G">>
      [] str = "INFO" -> <<"I", "N", "F", "O">>
      [] str = "WARN" -> <<"W", "A", "R", "N">>
      [] str = "ERROR" -> <<"E", "R", "R", "O", "R">>
      [] str = "FATAL" -> <<"F", "A", "T", "A", "L">>
      [] str = "PANIC" -> <<"P", "A", "N", "I", "C">>
      [] OTHER -> <<"U", "N", "K", "N", "O", "W", "N">>

UpperLetters ==
    <<"A", "B", "C", "D", "E", "F", "G", "H", "I", "J", "K", "L", "M",
      "N", "O", "P", "Q", "R", "S", "T", "U", "V", "W", "X", "Y", "Z">>
LowerLetters ==
    <<"a", "b", "c", "d", "e", "f", "g", "h", "i", "j", "k", "l", "m",
      "n", "o", "p", "q", "r", "s", "t", "u", "v", "w", "x", "y", "z">>

\* strings.ToLower on the strings the model draws, which are ASCII
ToLowerChar(ch) ==
    IF \E i \in DOMAIN UpperLetters : UpperLetters[i] = ch
    THEN LowerLetters[CHOOSE i \in DOMAIN UpperLetters : UpperLetters[i] = ch]
    ELSE ch
ToLower(s) == [i \in 1..Len(s) |-> ToLowerChar(s[i])]

\* a slip: the switch is on lvl itself
ParseLevelCaseSensitive(lvl) ==
    LET s == lvl
    IN CASE s = <<"p", "a", "n", "i", "c">> -> [level |-> PanicLevel, err |-> Nil]
         [] s = <<"f", "a", "t", "a", "l">> -> [level |-> FatalLevel, err |-> Nil]
         [] s = <<"e", "r", "r", "o", "r">> -> [level |-> ErrorLevel, err |-> Nil]
         [] s \in {<<"w", "a", "r", "n">>, <<"w", "a", "r", "n", "i", "n", "g">>} ->
              [level |-> WarnLevel, err |-> Nil]
         [] s = <<"i", "n", "f", "o">> -> [level |-> InfoLevel, err |-> Nil]
         [] s = <<"d", "e", "b", "u", "g">> -> [level |-> DebugLevel, err |-> Nil]
         [] OTHER -> [level |-> 0, err |-> "invalid level: " \o Text(lvl)]

\* ParseLevel(lvl): the level and the error returned
ParseLevel(lvl) ==
    LET s == ToLower(lvl)
    IN CASE s = <<"p", "a", "n", "i", "c">> -> [level |-> PanicLevel, err |-> Nil]
         [] s = <<"f", "a", "t", "a", "l">> -> [level |-> FatalLevel, err |-> Nil]
         [] s = <<"e", "r", "r", "o", "r">> -> [level |-> ErrorLevel, err |-> Nil]
         [] s \in {<<"w", "a", "r", "n">>, <<"w", "a", "r", "n", "i", "n", "g">>} ->
              [level |-> WarnLevel, err |-> Nil]
         [] s = <<"i", "n", "f", "o">> -> [level |-> InfoLevel, err |-> Nil]
         [] s = <<"d", "e", "b", "u", "g">> -> [level |-> DebugLevel, err |-> Nil]
         [] OTHER -> [level |-> 0, err |-> "invalid level: " \o Text(lvl)]

\* the strings the program parses: the level names and "warning" in every
\* mix of upper and lower case, and strings that name no level
LevelWords ==
    { <<"p", "a", "n", "i", "c">>, <<"f", "a", "t", "a", "l">>, <<"e", "r", "r", "o", "r">>,
      <<"w", "a", "r", "n">>, <<"w", "a", "r", "n", "i", "n", "g">>,
      <<"i", "n", "f", "o">>, <<"d", "e", "b", "u", "g">> }

ToUpperChar(ch) ==
    IF \E i \in DOMAIN LowerLetters : LowerLetters[i] = ch
    THEN UpperLetters[CHOOSE i \in DOMAIN LowerLetters : LowerLetters[i] = ch]
    ELSE ch

CaseVariants(w) ==
    { [i \in 1..Len(w) |-> IF i \in S THEN ToUpperChar(w[i]) ELSE w[i]] :
        S \in SUBSET (1..Len(w)) }

OtherStrings ==
    { <<>>, <<"w", "a", "r", "n", "i", "n">>, <<"w", "a", "r", "n", "s">>,
      <<"i", "n", "f">>, <<" ", "i", "n", "f", "o">>, <<"i", "n", "f", "o", " ">>,
      <<"t", "r", "a", "c", "e">>, <<"U", "N", "K", "N", "O", "W", "N">>,
      <<"4">>, <<"e", "r", "r">>, <<"c", "r", "i", "t", "i", "c", "a", "l">> }

ParseInputs == (UNION {CaseVariants(w) : w \in LevelWords}) \cup OtherStrings

\* lvl, err := ParseLevel(s)
Parse(s) ==
    /\ pc = "idle"
    /\ LET r == ParseLevel(s)
       IN last' = [api |-> "ParseLevel", input |-> s, of |-> <<>>,
                   level |-> r.level, err |-> r.err]
    /\ pc' = "called"
    /\ UNCHANGED <<DefaultLevel, DefaultAppender, ctx, heap, entry, built, threads,
                 DefaultContext, derived, logger, prev, buffer, counter>>

\* lvl, err := ParseLevel(l.String())
ParseString(l) ==
    /\ pc = "idle"
    /\ LET s == Chars(LevelString(l))
           r == ParseLevel(s)
       IN last' = [api |-> "ParseLevel", input |-> s, of |-> <<l>>,
                   level |-> r.level, err |-> r.err]
    /\ pc' = "called"
    /\ UNCHANGED <<DefaultLevel, DefaultAppender, ctx, heap, entry, built, threads,
                 DefaultContext, derived, logger, prev, buffer, counter>>

NextParse ==
    \/ \E s \in ParseInputs : Parse(s)
    \/ \E l \in Levels : ParseString(l)
    \/ Return

SpecParse == Init /\ [][NextParse]_vars

----------------------------------------------------------------------------
(* The Entry builder *)

ErrorKey == "error"

\* the maps given to WithFields and the errors given to WithError (err.Error()
\* is the text); the maps are made by the caller and not nil
FieldMaps == {EmptyMap, [k \in {"size"} |-> 1], [k \in Keys |-> 2]}
Errors == {ErrorArg("boom"), ErrorArg("bang")}

\* e = WithFields(fields): the Entry holds the map it was given
WithFields(fields) ==
    /\ pc = "idle"
    /\ entry' = TRUE
    /\ heap' = [heap EXCEPT !.entry = fields]
    /\ built' = fields
    /\ UNCHANGED <<DefaultLevel, DefaultAppender, ctx, pc, last, threads,
                 DefaultContext, derived, logger, prev, buffer, counter>>

\* e = WithError(err)
WithError(err) ==
    /\ pc = "idle"
    /\ entry' = TRUE
    /\ heap' = [heap EXCEPT !.entry = [k \in {ErrorKey} |-> err.err]]
    /\ built' = [k \in {ErrorKey} |-> err.err]
    /\ UNCHANGED <<DefaultLevel, DefaultAppender, ctx, pc, last, threads,
                 DefaultContext, derived, logger, prev, buffer, counter>>

\* a slip: a key the Entry already holds keeps its value
EntryWithFieldsKeepsFirst(fields) ==
    /\ pc = "idle"
    /\ entry
    /\ heap' = [heap EXCEPT !.entry = MapPutAll(fields, heap.entry)]
    /\ built' = MapPutAll(built, fields)
    /\ UNCHANGED <<DefaultLevel, DefaultAppender, ctx, entry, pc, last, threads,
                 DefaultContext, derived, logger, prev, buffer, counter>>

\* e.WithFields(fields): for k, v := range fields { e.fields[k] = v }
EntryWithFields(fields) ==
    /\ pc = "idle"
    /\ entry
    /\ heap' = [heap EXCEPT !.entry = MapPutAll(heap.entry, fields)]
    /\ built' = MapPutAll(built, fields)
    /\ UNCHANGED <<DefaultLevel, DefaultAppender, ctx, entry, pc, last, threads,
                 DefaultContext, derived, logger, prev, buffer, counter>>

\* e.WithError(err): e.fields[ErrorKey] = err.Error()
EntryWithError(err) ==
    /\ pc = "idle"
    /\ entry
    /\ heap' = [heap EXCEPT !.entry = MapPut(heap.entry, ErrorKey, err.err)]
    /\ built' = MapPut(built, ErrorKey, err.err)
    /\ UNCHANGED <<DefaultLevel, DefaultAppender, ctx, entry, pc, last, threads,
                 DefaultContext, derived, logger, prev, buffer, counter>>

\* An Entry is made and added to by every builder call, and terminal calls
\* are made on it with a context that carries a level and the recording
\* Appender and no field source.
BuilderFunctions == {"Info", "Error"}

NextBuilder ==
    \/ WithLevel(InfoLevel)
    \/ WithAppender("rec")
    \/ \E k \in Keys, v \in Vals : WithField(k, v)
    \/ \E m \in FieldMaps : WithFields(m)
    \/ \E e \in Errors : WithError(e)
    \/ \E k \in Keys, v \in Vals : EntryWithField(k, v)
    \/ \E m \in FieldMaps : EntryWithFields(m)
    \/ \E e \in Errors : EntryWithError(e)
    \/ \E fn \in BuilderFunctions, c \in CtxArgs, args \in FieldArgLists :
           EntryLog(fn, c, args)
    \/ Return

SpecBuilder == Init /\ [][NextBuilder]_vars

----------------------------------------------------------------------------
(* The type switch on the first argument *)

\* first arguments of every kind the switch tells apart, one of them both an
\* error and a Stringer, alone or followed by one more operand
FirstOperands ==
    { StringArg(<<"Hello ", "%s">>), StringArg(<<"Kepler">>), ErrorArg("boom"),
      StringerArg("Kepler"), FaultArg("lost contact", "Kepler-22b"), IntArg(3) }
MoreOperands == { StringArg(<<"Bob">>), IntArg(4) }

SwitchArgLists ==
    { <<x>> : x \in FirstOperands } \cup { <<x, y>> : x \in FirstOperands, y \in MoreOperands }

SwitchFunctions == {"Info", "Warn", "Error"}

NextSwitch ==
    \/ \E l \in {ErrorLevel, DebugLevel} : SetDefaultLevel(l)
    \/ \E a \in Appenders : SetDefaultAppender(a)
    \/ \E fn \in SwitchFunctions, c \in {Nil, "bg"}, args \in SwitchArgLists : Log(fn, c, args)
    \/ Return

SpecSwitch == Init /\ [][NextSwitch]_vars

----------------------------------------------------------------------------
(* What the claims speak of, read off the state after a log call *)

\* a log call has just ended
Called == last.api # None

\* the threshold the call's context resolves to: its own level, else DefaultLevel
Threshold ==
    IF last.ctx = "ctx" /\ ctx.level # <<>> THEN ctx.level[1] ELSE DefaultLevel

\* the appender the call's context resolves to, Nil when there is none
Resolved ==
    IF last.ctx = "ctx" /\ ctx.appender # <<>> THEN ctx.appender[1] ELSE DefaultAppender

\* the field source of the call's context, <<>> when it has none
Source == IF last.ctx = "ctx" THEN ctx.fields ELSE <<>>

Qualifying == Called /\ last.lvl <= Threshold
Filtered == Called /\ last.lvl > Threshold

SourceInvoked == \E i \in DOMAIN last.out.events : last.out.events[i] = "source"
Formatted == \E i \in DOMAIN last.out.events : last.out.events[i] = "format"

NormalizedCtx == IF last.ctx = Nil THEN "bg" ELSE last.ctx

\* the explicit fields as they stand when the merge takes place: a
\* contextual source has by then popped the keys it consumes
ExplicitAtMerge ==
    IF Source = <<"contextual">> THEN ContextualDeletes(last.explicit) ELSE last.explicit

\* the mapping the context's field source yields for the call
Yielded ==
    CASE Source = <<"static">> -> last.before.ctxmap
      [] Source = <<"lazy">> -> [k \in {"point"} |-> 3]
      [] Source = <<"contextual">> -> ContextualFields(last.explicit).m
      [] OTHER -> EmptyMap

\* E merged with S, S winning on a conflict
Merged(E, S) ==
    [k \in DOMAIN E \cup DOMAIN S |-> IF k \in DOMAIN S THEN S[k] ELSE E[k]]

\* the message of the argument lists whose formatting is settled by the
\* zero-argument, one-argument and template paths
TemplateMessage(args) ==
    CASE args = <<>> -> ""
      [] Len(args) = 1 -> "Hello %s"
      [] OTHER -> "Hello Bob"

\* C2: a log call that passes the filter and whose appender resolves to a
\* non-nil value invokes Append exactly once, on every path of the formatter,
\* with the normalized context, the call's level, the merged fields and the
\* formatted message.
C2_AppendExactlyOnce ==
    (Qualifying /\ Resolved # Nil) =>
        /\ Len(last.out.appends) = 1
        /\ Cardinality({i \in DOMAIN last.out.events : last.out.events[i] = "append"}) = 1
        /\ last.out.appends[1].a = Resolved
        /\ last.out.appends[1].ctx = NormalizedCtx
        /\ last.out.appends[1].lvl = last.lvl
        /\ last.out.appends[1].fields = Merged(ExplicitAtMerge, Yielded)
        /\ (Len(last.args) < 2 \/ last.args[1].t = "string") =>
               last.out.appends[1].msg = TemplateMessage(last.args)

C2_Witness ==
    /\ Qualifying
    /\ Resolved = "rec"
    /\ last.ctx = Nil
    /\ Len(last.args) = 0
    /\ last.lvl = FatalLevel

C2_WitnessMany ==
    /\ Qualifying
    /\ Resolved # Nil
    /\ Len(last.args) > 1

\* C3: the mapping handed to the Appender has exactly the keys of the explicit
\* fields E and of the mapping S the context's field source yields, with the
\* value of S for every key of S and the value of E for every other key.
C3_SourceWinsOnConflict ==
    (Qualifying /\ Len(last.out.appends) = 1) =>
        LET E == ExplicitAtMerge
            S == Yielded
            M == last.out.appends[1].fields
        IN /\ DOMAIN M = DOMAIN E \cup DOMAIN S
           /\ \A k \in DOMAIN S : M[k] = S[k]
           /\ \A k \in DOMAIN E \ DOMAIN S : M[k] = E[k]

C3_Witness ==
    /\ Qualifying
    /\ Len(last.out.appends) = 1
    /\ Source = <<"static">>
    /\ last.explicit = [k \in {"size"} |-> 1]
    /\ Yielded = [k \in Keys |-> 3]
    /\ last.out.appends[1].fields = [k \in Keys |-> 3]

\* the call is made with a nil context, the background context or a context
\* that carries no Appender, while DefaultAppender is nil
NoAppender ==
    /\ DefaultAppender = Nil
    /\ \/ last.ctx \in {Nil, "bg"}
       \/ last.ctx = "ctx" /\ ctx.appender = <<>>

\* C4: a log call that passes the filter and has no appender to resolve to
\* ends in a panic, never in a return, and no Appender is invoked.
C4_MissingAppenderPanics ==
    (Qualifying /\ NoAppender) =>
        /\ last.out.how = "panic"
        /\ last.out.appends = <<>>
        /\ last.out.written = <<>>

C4_Witness ==
    /\ Qualifying
    /\ NoAppender
    /\ last.ctx = "ctx"
    /\ ctx.level # <<>>
    /\ last.out.how = "panic"

\* C5: when a qualifying dispatch aborts for want of an appender, the field
\* source has not been invoked and the Entry's fields are unchanged.
C5_AbortHasNoSideEffects ==
    (Qualifying /\ NoAppender) =>
        /\ ~SourceInvoked
        /\ heap.entry = last.before.entry

\* C6: a Fatal-level dispatch that passes the filter ends the process, with
\* whatever Appender its entry was handed to.
C6_FatalExits ==
    (Qualifying /\ last.lvl = FatalLevel /\ Len(last.out.appends) = 1) =>
        /\ last.out.how = "exit"
        /\ pc = "exited"

\* C7: a Panic-level dispatch panics with the formatted message as payload,
\* after Append was invoked with the entry, with whatever Appender.
C7_PanicCarriesMessage ==
    (Qualifying /\ last.lvl = PanicLevel /\ Resolved # Nil) =>
        /\ last.out.how = "panic"
        /\ Len(last.out.appends) = 1
        /\ last.out.payload = last.out.appends[1].msg
        /\ \E i, j \in DOMAIN last.out.events :
              /\ i < j
              /\ last.out.events[i] = "append"
              /\ last.out.events[j] = "panic"

\* C8: with the threshold at PanicLevel a Fatal-level call still reaches the
\* Appender.
C8_FatalPassesPanicThreshold ==
    (Called /\ last.lvl = FatalLevel /\ Threshold = PanicLevel /\ Resolved # Nil) =>
        Len(last.out.appends) = 1

\* C9: a terminal call on an Entry with accumulated fields F delivers exactly
\* F merged with what the call's context yields, whatever terminal calls
\* were made on the Entry before.
C9_EntryReuseIsIndependent ==
    (Qualifying /\ last.api = "entry" /\ Len(last.out.appends) = 1) =>
        LET S == CASE Source = <<"static">> -> last.before.ctxmap
                   [] Source = <<"lazy">> -> [k \in {"point"} |-> 3]
                   [] Source = <<"contextual">> -> ContextualFields(built).m
                   [] OTHER -> EmptyMap
            F == IF Source = <<"contextual">> THEN ContextualDeletes(built) ELSE built
        IN last.out.appends[1].fields = Merged(F, S)

\* C10: while goroutines make terminal calls on one Entry whose fields are no
\* longer accumulated, the dispatch of one goroutine is never about to write
\* the Entry's map while another goroutine is about to read or write it.
C10_ConcurrentTerminalCallsAreSafe ==
    \A t1, t2 \in Threads :
        (t1 # t2 /\ "entry" \in SwapWrites(t1)) => "entry" \notin Reads(t2) \cup Writes(t2)

\* the dispatch went past the level check
PassedFilter == Called /\ \E i \in DOMAIN last.out.events : last.out.events[i] = "appender"

\* C11: a log call made with a nil context is filtered, routed and given
\* fields as the public DefaultContext variable's current value says: by the
\* level DefaultContext carries (else DefaultLevel), to the Appender it carries
\* (else DefaultAppender), with the fields its field source yields.
C11_NilContextIsDefaultContext ==
    (Called /\ last.ctx = Nil) =>
        /\ PassedFilter <=>
               last.lvl <= (IF DefaultContext.level # <<>>
                            THEN DefaultContext.level[1] ELSE DefaultLevel)
        /\ last.out.appends # <<>> =>
               /\ last.out.appends[1].a =
                      (IF DefaultContext.appender # <<>>
                       THEN DefaultContext.appender[1] ELSE DefaultAppender)
               /\ last.out.appends[1].fields =
                      (IF DefaultContext.fields = <<"lazy">>
                       THEN [k \in {"point"} |-> 3] ELSE EmptyMap)

\* C12: a qualifying call on a context that carries an Appender dispatches to
\* that Appender, also when DefaultAppender is assigned; a qualifying call with
\* a nil context, the background context or a context that carries no
\* Appender dispatches to the assigned DefaultAppender.
C12_AppenderResolution ==
    Qualifying =>
        /\ (last.ctx = "ctx" /\ ctx.appender # <<>>) =>
               /\ Len(last.out.appends) = 1
               /\ last.out.appends[1].a = ctx.appender[1]
        /\ ((last.ctx \in {Nil, "bg"} \/ ctx.appender = <<>>) /\ DefaultAppender # Nil) =>
               /\ Len(last.out.appends) = 1
               /\ last.out.appends[1].a = DefaultAppender

C12_Witness ==
    /\ Qualifying
    /\ last.ctx = "ctx"
    /\ ctx.appender = <<"rec">>
    /\ DefaultAppender = "iow"
    /\ last.out.appends[1].a = "rec"

\* the same context without an Appender falls back to the default
C12_WitnessDefault ==
    /\ Qualifying
    /\ last.ctx = "ctx"
    /\ ctx.appender = <<>>
    /\ ctx.level # <<>>
    /\ DefaultAppender = "rec"
    /\ last.out.appends[1].a = "rec"

\* the call before the last one was the same call: the same function,
\* arguments and context, the context carrying what it carries now
Repeated ==
    /\ Called
    /\ prev.api # None
    /\ prev.fn = last.fn
    /\ prev.args = last.args
    /\ prev.ctx = last.ctx
    /\ prev.attached = ctx

\* C13: when a log call is repeated on the same context, whatever DefaultLevel
\* and DefaultAppender were at the first call, the second is filtered by the
\* present DefaultLevel when the context carries no level, and routed to the
\* present DefaultAppender when the context carries no Appender.
C13_DefaultsReadOnEveryDispatch ==
    Repeated =>
        /\ Value(NormalizedCtx, LevelKey) = <<>> =>
               (PassedFilter <=> last.lvl <= DefaultLevel)
        /\ (PassedFilter /\ Value(NormalizedCtx, AppenderKey) = <<>>) =>
               IF DefaultAppender = Nil
               THEN last.out.appends = <<>> /\ last.out.how = "panic"
               ELSE Len(last.out.appends) = 1 /\ last.out.appends[1].a = DefaultAppender

\* an Info call dropped under DefaultLevel = ErrorLevel is emitted by the same
\* call after DefaultLevel is set to InfoLevel, by the Appender assigned since
C13_Witness ==
    /\ Repeated
    /\ last.fn = "Info"
    /\ last.ctx = "ctx"
    /\ prev.DefaultLevel = ErrorLevel
    /\ prev.events = <<"level">>
    /\ prev.DefaultAppender = "iow"
    /\ DefaultLevel = InfoLevel
    /\ DefaultAppender = "rec"
    /\ Len(last.out.appends) = 1
    /\ last.out.appends[1].a = "rec"
    /\ last.out.appends[1].msg = "Hello Bob"

\* the contexts from c up to the background context, c first
RECURSIVE Ancestry(_)
Ancestry(c) == IF c \notin DerivedNames THEN <<>> ELSE <<c>> \o Ancestry(Derived(c).parent)

\* the level a context was given itself, else the one its nearest ancestor
\* was given, else DefaultLevel
OwnLevel(c) ==
    LET given == SelectSeq(Ancestry(c), LAMBDA d : Derived(d).key = LevelKey)
    IN IF given = <<>> THEN DefaultLevel ELSE Derived(given[1]).val

\* C14: a call through any context the program keeps, parent or child, is
\* filtered by the level that context was given itself, else by the nearest
\* one above it, else by DefaultLevel; and deriving a context leaves every
\* context derived before as it was.
C14_DerivationLeavesParentAlone ==
    /\ [](Called => (PassedFilter <=> last.lvl <= OwnLevel(last.ctx)))
    /\ [][\A i \in DOMAIN derived : i \in DOMAIN derived' /\ derived'[i] = derived[i]]_vars

\* a Debug call through a parent given ErrorLevel is dropped after a child
\* of it was given DebugLevel
C14_Witness ==
    /\ Called
    /\ Len(derived) >= 2
    /\ derived[1] = [parent |-> "bg", key |-> LevelKey, val |-> ErrorLevel]
    /\ derived[2] = [parent |-> "c1", key |-> LevelKey, val |-> DebugLevel]
    /\ DefaultLevel = DebugLevel
    /\ last.ctx = "c1"
    /\ last.fn = "Debug"
    /\ ~PassedFilter

\* and the same call through the child is emitted
C14_WitnessChild ==
    /\ Called
    /\ Len(derived) >= 2
    /\ derived[1] = [parent |-> "bg", key |-> LevelKey, val |-> ErrorLevel]
    /\ derived[2] = [parent |-> "c1", key |-> LevelKey, val |-> DebugLevel]
    /\ last.ctx = "c2"
    /\ last.fn = "Debug"
    /\ Len(last.out.appends) = 1

\* the message of the argument lists logged to the buffer
WriterMessage(args) == IF Len(args) = 2 THEN "Hello Bob" ELSE "Hello Mary Kay"

\* the line the last call is to add to the buffer: none when it was filtered
\* or had no appender on the buffer
ExpectedLines ==
    IF Filtered \/ Resolved # "buf" THEN <<>>
    ELSE LET head == "[" \o LevelString(last.lvl) \o "] " \o WriterMessage(last.args)
         IN IF Yielded = EmptyMap
            THEN <<head \o "\n">>
            ELSE <<head \o " " \o MapString(Yielded) \o "\n">>

\* C15: every log call adds to the buffer exactly one line "[LEVEL] msg\n",
\* with the fields after msg when there are any, if it passes the filter and
\* nothing if it is filtered; no other step changes the buffer.  The buffer is
\* therefore the concatenation of these lines in call order.
C15_BufferIsOneLinePerEmittedCall ==
    [][IF pc = "idle" /\ pc' # "idle"
       THEN buffer' = buffer \o ExpectedLines'
       ELSE buffer' = buffer]_vars

\* Error, Error, then an Info filtered under threshold Error: two lines
C15_Witness ==
    /\ buffer = <<"[ERROR] Hello Bob\n", "[ERROR] Hello Mary Kay\n">>
    /\ Filtered
    /\ last.fn = "Info"
    /\ Threshold = ErrorLevel
    /\ Resolved = "buf"

C15_WitnessFields ==
    /\ Called
    /\ Len(buffer) = 2
    /\ buffer[2] = "[INFO] Hello Bob map[point:3 size:3]\n"

\* the last call handed one entry to an Appender; its message
Emitted == Called /\ Len(last.out.appends) = 1
Msg == last.out.appends[1].msg

\* an argument's own string form: a string as it is, an error's Error(), a
\* Stringer's String(), the default form of anything else
StringForm(x) ==
    CASE x.t = "string" -> Text(x.toks)
      [] x.t = "error" -> x.err
      [] x.t = "stringer" -> Text(x.toks)
      [] OTHER -> ToString(x.n)

\* C16: with no argument the message is empty; with one argument it is that
\* argument's string form, a string with verbs unchanged; with a string first
\* and more arguments it is the printf substitution of the others into it.
C16_TemplateMode ==
    Emitted =>
        /\ Len(last.args) = 0 => Msg = ""
        /\ Len(last.args) = 1 => Msg = StringForm(last.args[1])
        /\ (Len(last.args) > 1 /\ last.args[1].t = "string") =>
               Msg = Sprintf(last.args[1].toks, Tail(last.args))

C16_Witness ==
    /\ Emitted
    /\ last.api = "package"
    /\ last.args = <<StringArg(<<"Hello ", "%s">>)>>
    /\ Msg = "Hello %s"

C16_WitnessTemplate ==
    /\ Emitted
    /\ last.api = "package"
    /\ last.args = <<StringArg(<<"Hello ", "%s">>), StringArg(<<"Bob">>)>>
    /\ Msg = "Hello Bob"

\* C17: with a first argument that is not a string and more arguments, the
\* message is the first argument's string form followed by the string forms
\* of the others, separated by spaces.
C17_PrintModeKeepsFirstArgument ==
    (Emitted /\ Len(last.args) > 1 /\ last.args[1].t # "string") =>
        \E sep \in {"", " "} :
            Msg = StringForm(last.args[1]) \o sep \o SpaceJoin(Tail(last.args))

LnMethods == {fn \o "ln" : fn \in LogFunctions}
FMethods == {fn \o "f" : fn \in LogFunctions}

\* the level a method of the Logger is named after
MethodLevel(m) ==
    CASE m \in {"Debug", "Debugf", "Debugln"} -> DebugLevel
      [] m \in {"Info", "Infof", "Infoln", "Print", "Printf", "Println"} -> InfoLevel
      [] m \in {"Warn", "Warnf", "Warnln"} -> WarnLevel
      [] m \in {"Error", "Errorf", "Errorln"} -> ErrorLevel
      [] m \in {"Fatal", "Fatalf", "Fatalln"} -> FatalLevel
      [] OTHER -> PanicLevel

\* C18 as stated, on the case it singles out: the message of an Xln call
\* whose first argument is a string is its arguments' string forms joined by
\* spaces, and the first argument is not used as a template.
C18_LnConcatenates ==
    (Emitted /\ last.api = "logger" /\ last.fn \in LnMethods
       /\ last.args # <<>> /\ last.args[1].t = "string") =>
        Msg = SpaceJoin(last.args)

\* the message X makes of its arguments
BaseMessage(args) ==
    CASE Len(args) = 0 -> ""
      [] Len(args) = 1 -> StringForm(args[1])
      [] Len(args) > 1 /\ args[1].t = "string" -> Sprintf(args[1].toks, Tail(args))
      [] OTHER -> Fprint(Tail(args))

\* C18 amended: Xln is an alias of X.  It dispatches at the level of X with
\* the message X makes of the same arguments; a string first argument followed
\* by more arguments is the template of a printf substitution.
C18_LnIsAliasOfBase ==
    (Called /\ last.api = "logger" /\ last.fn \in LnMethods) =>
        /\ last.lvl = MethodLevel(last.fn)
        /\ Emitted => Msg = BaseMessage(last.args)

C18_Witness ==
    /\ Emitted
    /\ last.api = "logger"
    /\ last.fn = "Infoln"
    /\ last.args = <<StringArg(<<"Hello">>), StringArg(<<"Bob">>)>>
    /\ Msg = "Hello%!(EXTRA string=Bob)"

\* C19: the message of Xf(format) is format as it is, and the message of
\* Xf(format, a1..an) with n >= 1 is the printf substitution of a1..an into
\* format.
C19_FormatIsTemplateOnlyWithArguments ==
    (Emitted /\ last.api = "logger" /\ last.fn \in FMethods) =>
        /\ Len(last.args) = 1 => Msg = Text(last.args[1].toks)
        /\ Len(last.args) > 1 => Msg = Sprintf(last.args[1].toks, Tail(last.args))

C19_Witness ==
    /\ Emitted
    /\ last.api = "logger"
    /\ last.fn = "Errorf"
    /\ last.args = <<StringArg(<<"Hello ", "%s">>), StringArg(<<"Bob">>)>>
    /\ Msg = "Hello Bob"

C19_WitnessVerbatim ==
    /\ Emitted
    /\ last.api = "logger"
    /\ last.fn = "Infof"
    /\ last.args = <<StringArg(<<"Hello ", "%s">>)>>
    /\ Msg = "Hello %s"

\* C20: every method of the Logger dispatches with the Logger's context at
\* the level it is named after: X, Xf and Xln at the level of X.
C20_MethodsDispatchAtOwnLevel ==
    (Called /\ last.api = "logger") =>
        /\ last.lvl = MethodLevel(last.fn)
        /\ last.ctx = LoggerCtx

\* C21: a full-signature field function is handed the call's context, level,
\* explicit field mapping (the Entry's own map) and arguments; the keys it
\* deletes are absent from the mapping the Appender is handed and the fields it
\* returns are present; with no explicit fields it is invoked all the same and
\* its result is delivered.
C21_ContextualSourceSeesTheCall ==
    (Qualifying /\ Source \in {<<"contextual">>, <<"echo">>}) =>
        /\ SourceInvoked
        /\ Len(last.out.appends) = 1 =>
              LET f == last.out.appends[1].fields
              IN /\ Source = <<"contextual">> =>
                       /\ "size" \notin DOMAIN f
                       /\ "point" \in DOMAIN f
                       /\ f["point"] = (IF "size" \in DOMAIN last.explicit
                                        THEN last.explicit["size"] ELSE 3)
                       /\ \A k \in DOMAIN last.explicit \ {"size", "point"} :
                              k \in DOMAIN f /\ f[k] = last.explicit[k]
                       /\ last.api = "entry" => "size" \notin DOMAIN heap.entry
                 /\ Source = <<"echo">> =>
                       /\ {"ctx", "lvl", "given", "args"} \subseteq DOMAIN f
                       /\ f["ctx"] = NormalizedCtx
                       /\ f["lvl"] = last.lvl
                       /\ f["given"] = MapLen(last.explicit)
                       /\ f["args"] = Len(last.args)

\* the function pops the Entry's "size" and the Appender is handed the
\* "point" derived from it
C21_Witness ==
    /\ Qualifying
    /\ Source = <<"contextual">>
    /\ last.api = "entry"
    /\ "size" \in DOMAIN last.explicit
    /\ Len(last.out.appends) = 1
    /\ "size" \notin DOMAIN last.out.appends[1].fields
    /\ last.out.appends[1].fields["point"] = last.explicit["size"]

\* a package call: no explicit fields, the function's result is delivered
C21_WitnessNoExplicit ==
    /\ Qualifying
    /\ Source = <<"contextual">>
    /\ last.api = "package"
    /\ Len(last.out.appends) = 1
    /\ last.out.appends[1].fields = [k \in {"point"} |-> 3]

\* the reporting function was handed two arguments and a one-key mapping
C21_WitnessEcho ==
    /\ Qualifying
    /\ Source = <<"echo">>
    /\ Len(last.out.appends) = 1
    /\ last.out.appends[1].fields["args"] = 2
    /\ last.out.appends[1].fields["given"] = 1

C22_WitnessFiltered ==
    /\ Filtered
    /\ Source = <<"counter">>
    /\ counter = 1

\* two strings that differ at most in the case of their letters
SameIgnoringCase(a, b) ==
    /\ Len(a) = Len(b)
    /\ \A i \in 1..Len(a) :
          \/ a[i] = b[i]
          \/ \E j \in DOMAIN UpperLetters :
                {a[i], b[i]} = {UpperLetters[j], LowerLetters[j]}

\* C23: ParseLevel(L.String()) returns L and no error for each of the six
\* levels; a string that is a level's name or "warning" in any mix of case
\* parses to that level ("warn" and "warning" to WarnLevel) with no error;
\* every other string returns an error.
C23_ParseLevelRoundTrip ==
    last.api = "ParseLevel" =>
        LET named == {L \in Levels : SameIgnoringCase(last.input, Chars(LevelString(L)))}
            warning == SameIgnoringCase(last.input, <<"W", "A", "R", "N", "I", "N", "G">>)
        IN /\ last.of # <<>> => (last.level = last.of[1] /\ last.err = Nil)
           /\ \A L \in named : last.level = L /\ last.err = Nil
           /\ warning => (last.level = WarnLevel /\ last.err = Nil)
           /\ (named = {} /\ ~warning) => last.err # Nil

\* the round trip of WarnLevel
C23_Witness ==
    /\ last.api = "ParseLevel"
    /\ last.of = <<WarnLevel>>
    /\ last.input = <<"W", "A", "R", "N">>
    /\ last.level = WarnLevel
    /\ last.err = Nil

\* "wArNiNg" parses to WarnLevel
C23_WitnessWarning ==
    /\ last.api = "ParseLevel"
    /\ last.input = <<"w", "A", "r", "N", "i", "N", "g">>
    /\ last.level = WarnLevel
    /\ last.err = Nil

\* a string that names no level
C23_WitnessInvalid ==
    /\ last.api = "ParseLevel"
    /\ last.input = <<"t", "r", "a", "c", "e">>
    /\ last.err = "invalid level: trace"

C25_PanicPayloadIsTheLineWritten ==
    (Called /\ last.lvl = PanicLevel /\ Resolved \in IOWriters) =>
        /\ last.out.how = "panic"
        /\ last.out.written = <<last.out.payload>>
        /\ buffer # <<>> /\ buffer[Len(buffer)] = last.out.payload
        /\ \E i, j \in DOMAIN last.out.events :
              /\ i < j
              /\ last.out.events[i] = "write"
              /\ last.out.events[j] = "panic"
              /\ \A k \in DOMAIN last.out.events : last.out.events[k] = "panic" => k = j
        /\ MapLen(last.out.appends[1].fields) = 0 =>
               last.out.payload = "[PANIC] " \o WriterMessage(last.args) \o "\n"

C25_Witness ==
    /\ Called
    /\ last.fn = "Panic"
    /\ Resolved = "buf"
    /\ last.out.how = "panic"
    /\ last.out.payload = "[PANIC] Hello Bob\n"
    /\ buffer[Len(buffer)] = "[PANIC] Hello Bob\n"

\* C26: the message of a lone first argument is the string itself for a
\* string, Error() for an error, also for one that is a Stringer as well,
\* String() for a Stringer that is no error, and the %v form otherwise; a
\* string followed by operands is the template they are formatted into.
C26_FirstArgumentDiscrimination ==
    Emitted =>
        LET x == last.args[1]
        IN /\ Len(last.args) = 1 =>
                 Msg = (CASE x.t = "string" -> Text(x.toks)
                          [] x.t = "error" -> x.err
                          [] x.t = "fault" -> x.err
                          [] x.t = "stringer" -> x.toks[1]
                          [] OTHER -> ToString(x.n))
           /\ (Len(last.args) = 2 /\ x.t = "string") =>
                 Msg = (IF x.toks = <<"Kepler">>
                        THEN "Kepler%!(EXTRA " \o GoType(last.args[2]) \o "="
                             \o DefaultString(last.args[2]) \o ")"
                        ELSE "Hello " \o (IF last.args[2].t = "int"
                                          THEN "%!s(int=4)" ELSE "Bob"))

\* a value that is both an error and a Stringer is rendered with Error()
C26_Witness ==
    /\ Emitted
    /\ last.args = <<FaultArg("lost contact", "Kepler-22b")>>
    /\ Msg = "lost contact"

\* a Stringer that is no error is rendered with String()
C26_WitnessStringer ==
    /\ Emitted
    /\ last.args = <<StringerArg("Kepler")>>
    /\ Msg = "Kepler"

\* C27: PanicLevel is the least level, so whatever threshold the call's
\* context resolves to (its own level or DefaultLevel) a Panic-level call
\* passes the level check and goes on to resolve the appender; with an
\* appender resolved the entry is appended.
C27_PanicIsNeverFiltered ==
    /\ \A l \in Levels : PanicLevel <= l
    /\ (Called /\ last.lvl = PanicLevel) =>
          /\ PassedFilter
          /\ Resolved # Nil => Len(last.out.appends) = 1

\* the threshold is PanicLevel itself, set on the context
C27_Witness ==
    /\ Called
    /\ last.lvl = PanicLevel
    /\ last.ctx = "ctx"
    /\ ctx.level = <<PanicLevel>>
    /\ PassedFilter
    /\ Len(last.out.appends) = 1

\* the threshold is DefaultLevel, lowered to PanicLevel
C27_WitnessDefault ==
    /\ Called
    /\ last.lvl = PanicLevel
    /\ last.ctx = Nil
    /\ DefaultLevel = PanicLevel
    /\ PassedFilter

\* C28: the level check comes before the appender is resolved: a call that
\* is filtered out returns normally, without a panic and without having
\* resolved an appender, also when neither the context nor DefaultAppender
\* provides one.
C28_FilterPrecedesAppenderResolution ==
    Filtered =>
        /\ last.out.how = "return"
        /\ last.out.payload = ""
        /\ last.out.events = <<"level">>
        /\ pc = "called"

C28_Witness ==
    /\ Filtered
    /\ NoAppender
    /\ last.out.how = "return"
    /\ last.out.events = <<"level">>

\* C29: a log call leaves the static map attached to its context with the
\* keys and values it had before the call, whether the explicit fields are
\* empty or not; with empty explicit fields and a non-empty static map the
\* Appender is handed that very map, with explicit fields it is handed the
\* Entry's map.
C29_StaticMapIsNeverWritten ==
    Called =>
        /\ heap.ctxmap = last.before.ctxmap
        /\ (Source = <<"static">> /\ Len(last.out.appends) = 1
              /\ MapLen(last.before.ctxmap) > 0) =>
              IF MapLen(last.explicit) = 0
              THEN /\ last.out.appends[1].ref = "ctxmap"
                   /\ last.out.appends[1].fields = heap.ctxmap
              ELSE last.out.appends[1].ref = "entry"

\* explicit fields that share a key with the static map: the map is as before
C29_Witness ==
    /\ Called
    /\ Source = <<"static">>
    /\ Len(last.out.appends) = 1
    /\ "size" \in DOMAIN last.explicit
    /\ last.explicit["size"] = 1
    /\ heap.ctxmap = [k \in Keys |-> 3]
    /\ last.out.appends[1].fields["size"] = 3

\* no explicit fields: the Appender is handed the context's map itself
C29_WitnessSameMap ==
    /\ Called
    /\ Source = <<"static">>
    /\ last.api = "package"
    /\ Len(last.out.appends) = 1
    /\ last.out.appends[1].ref = "ctxmap"
    /\ heap.ctxmap = [k \in Keys |-> 3]

\* the positions of a step among the steps of the last call
Steps(name) == {i \in DOMAIN last.out.events : last.out.events[i] = name}

\* C30: a dispatch that passes the filter takes its steps in the order level
\* check, appender resolution, field-source invocation, formatting, Append:
\* the level check is first and the appender resolution second, a field
\* function is invoked before the message is formatted, and both come before
\* Append; a function source is invoked and a message with arguments is
\* formatted in every such dispatch.
C30_DispatchStepOrder ==
    Qualifying =>
        /\ Len(last.out.events) >= 2
        /\ last.out.events[1] = "level"
        /\ last.out.events[2] = "appender"
        /\ Steps("level") = {1}
        /\ Steps("appender") = {2}
        /\ \A i \in Steps("source") : \A j \in Steps("format") \cup Steps("append") : i < j
        /\ \A i \in Steps("format") : \A j \in Steps("append") : i < j
        /\ Source \in {<<"lazy">>, <<"contextual">>} => Steps("source") # {}
        /\ last.args # <<>> => Steps("format") # {}
        /\ Resolved # Nil => Steps("append") # {}

C30_Witness ==
    /\ Qualifying
    /\ Source = <<"lazy">>
    /\ last.args # <<>>
    /\ last.out.events = <<"level", "appender", "source", "format", "append">>

====
